---------------------------- MODULE Spec2Model ----------------------------
(***************************************************************************)
(* The two wizard pages of the flat-file import wizard:                    *)
(*   - SummaryPage    (src/unnamed/part_000)                               *)
(*   - FileConfigPage (src/src/sql/workbench/api/common/sqlExtHostTypes.ts *)
(*                     lines 394-692)                                      *)
(* Both run on one JavaScript event loop.  An action of this module is one *)
(* turn of that loop: a handler from its start, or the continuation of an  *)
(* await from the arrival of the awaited response, up to the next await of *)
(* an external request (promise continuations that need no external        *)
(* response run as microtasks of the same turn).                           *)
(*                                                                         *)
(* Strings that the code takes apart or parses (file paths, table names,   *)
(* display values of cells) are sequences of one-character strings; texts  *)
(* that the code only concatenates are sequences of their segments.        *)
(***************************************************************************)
EXTENDS Integers, Sequences, FiniteSets, Bags, TLC

VARIABLES
    model,                    \* the shared ImportDataModel
    \* ---- SummaryPage
    sumRuns,                  \* the invocations of SummaryPage.onPageEnter
    loading,                  \* this.loading.loading
    statusText,               \* this.statusText.value
    tableData,                \* this.table.data
    importAnotherFileVisible, \* instance.setImportAnotherFileVisibility
    sumActive,                \* the wizard shows the summary page
    \* ---- FileConfigPage
    server,                   \* this.server
    tableNames,               \* this.tableNames
    serverDropdown,           \* this.serverDropdown.values
    databaseDropdown,         \* this.databaseDropdown.values
    schemaDropdown,           \* this.schemaDropdown.values
    fileTextBox,              \* this.fileTextBox.value
    tableNameTextBox,         \* this.tableNameTextBox.value
    tableNameValid,           \* the result of the last tableNameTextBox.validate()
    tasks,                    \* the continuations awaiting an external response
    rejections,               \* the promise rejections of the latest turn, by origin
    lastAnswer,               \* the connection list the latest turn received, if any
    lastChange,               \* the latest dropdown selection made by the user
    cfgActive                 \* the wizard shows the configuration page

sumVars == <<sumRuns, loading, statusText, tableData, importAnotherFileVisible, sumActive>>

cfgVars == <<server, tableNames, serverDropdown, databaseDropdown, schemaDropdown,
             fileTextBox, tableNameTextBox, tableNameValid, tasks,
             rejections, lastAnswer, lastChange, cfgActive>>

vars == <<model, sumVars, cfgVars>>

----------------------------------------------------------------------------
(* Bounds *)

\* onPageEnter invocations of the summary page in one behaviour
MaxEnters == 2
\* column descriptors in model.proseColumns
MaxColumns == 2

----------------------------------------------------------------------------
(* Values *)

\* JavaScript's undefined, for fields that hold names
Undefined == "undefined"

\* undefined, for fields that hold texts (sequences)
UndefinedText == <<"undefined">>

Range(s) == {s[i] : i \in 1..Len(s)}

\* the value of lastAnswer after a turn that received no connection list
NoAnswer == <<Undefined>>

\* the connections of the connection host
Connections == {"c1", "c2", "c3"}

\* sqlops.connection.Connection: options and providerName of a connection
ConnOptions(c) ==
    CASE c = "c1" -> [server |-> "host1", port |-> "1433", authenticationType |-> "Integrated",
                      user |-> "", databaseDisplayName |-> "", providerName |-> "MSSQL"]
      [] c = "c2" -> [server |-> "host2", port |-> "", authenticationType |-> "SqlLogin",
                      user |-> "sa", databaseDisplayName |-> "", providerName |-> "MSSQL"]
      [] OTHER    -> [server |-> "host3", port |-> "1434", authenticationType |-> "SqlLogin",
                      user |-> "bob", databaseDisplayName |-> "db3", providerName |-> "MSSQL"]

\* column descriptors {columnName, dataType, nullable, primaryKey}
Descriptors ==
    << [columnName |-> "a", dataType |-> "int", nullable |-> FALSE, primaryKey |-> TRUE],
       [columnName |-> "b", dataType |-> "nvarchar", nullable |-> TRUE, primaryKey |-> FALSE],
       [columnName |-> "c", dataType |-> "int", nullable |-> TRUE, primaryKey |-> FALSE],
       [columnName |-> "d", dataType |-> "bit", nullable |-> FALSE, primaryKey |-> FALSE] >>

\* the values of model.proseColumns: 0..MaxColumns descriptors
ColumnLists == {SubSeq(Descriptors, 1, n) : n \in 0..MaxColumns}

\* errors a request can fail with: an Error object or a thrown string
NoError == [kind |-> "none", message |-> ""]
Errors == {[kind |-> "Error", message |-> "timeout"], [kind |-> "string", message |-> "denied"]}

\* passwords the credential lookup can return
Passwords == {"pw1"}

\* InsertDataResponse
NoResult == [defined |-> FALSE, success |-> FALSE, errorMessage |-> ""]
InsertResults ==
    {[defined |-> TRUE, success |-> TRUE, errorMessage |-> ""],
     [defined |-> TRUE, success |-> FALSE, errorMessage |-> "bulk insert failed"]}

\* cells of a SimpleExecuteResult
Cell(isNull, displayValue) == [isNull |-> isNull, displayValue |-> displayValue]

\* sqlops.SimpleExecuteResult of the row-count query (undefined while not assigned)
NoResults == [defined |-> FALSE, rows |-> <<>>]
CountResults ==
    {[defined |-> TRUE, rows |-> rs] :
        rs \in { <<>>,
                 << <<Cell(FALSE, <<"4", "2">>)>> >>,
                 << <<Cell(FALSE, <<"0">>)>> >>,
                 << <<Cell(TRUE, <<"N", "U", "L", "L">>)>> >>,
                 << <<Cell(FALSE, <<"n", "/", "a">>)>> >> }}


----------------------------------------------------------------------------
(* SummaryPage: pure parts *)

\* e.toString() (part_000:98): "Error: <message>" for an Error object, the
\* string itself for a thrown string
ErrorToString(e) ==
    IF e.kind = "Error" THEN <<"Error: ", e.message>> ELSE <<e.message>>

\* the data rows of populateTable (part_000:62-74)
PopulateTable(m) ==
    << <<"Server name", ConnOptions(m.server).providerName>>,
       <<"Database name", m.database>>,
       <<"Table name", m.table>>,
       <<"Table schema", m.schema>>,
       <<"File to be imported", m.filePath>> >>

\* ColumnChangeParams with the last descriptor left out (a loop that stops
\* one short)
ColumnChangeParams_DropLast(cols) ==
    [i \in 1..(Len(cols) - 1) |->
        [index |-> i - 1,
         newName |-> cols[i].columnName,
         newDataType |-> cols[i].dataType,
         newNullable |-> cols[i].nullable,
         newInPrimaryKey |-> cols[i].primaryKey]]

\* the parameters of the sendChangeColumnSettingsRequest calls of the forEach
\* of handleImport (part_000:78-87), in the order they are dispatched
ColumnChangeParams(cols) ==
    [i \in 1..Len(cols) |->
        [index |-> i - 1,
         newName |-> cols[i].columnName,
         newDataType |-> cols[i].dataType,
         newNullable |-> cols[i].nullable,
         newInPrimaryKey |-> cols[i].primaryKey]]

\* the requests dispatched by that forEach, as entries of the request log
ColumnChangeLog(cols) ==
    LET params == ColumnChangeParams(cols)
    IN [i \in 1..Len(params) |-> [op |-> "changeColumn", index |-> params[i].index]]

LogEntry(op) == [op |-> op, index |-> -1]

\* the data source segment without the port
DataSource_NoPort(options) == <<"Data Source=", options.server>>

\* `Data Source=${options.server + (options.port ? `,${options.port}` : '')}`
DataSource(options) ==
    <<"Data Source=", options.server>>
        \o (IF options.port /= "" THEN <<",", options.port>> ELSE <<>>)

\* getConnectionString, integrated branch (part_000:131-132)
IntegratedConnectionString(m) ==
    DataSource(ConnOptions(m.server))
        \o <<";Initial Catalog=", m.database, ";Integrated Security=True">>

\* getConnectionString, credential branch (part_000:134-135)
CredentialConnectionString(m, password) ==
    DataSource(ConnOptions(m.server))
        \o <<";Initial Catalog=", m.database, ";Integrated Security=False",
             ";User Id=", ConnOptions(m.server).user, ";Password=", password>>

\* the characters Number() reads as decimal digits
DigitChars == <<"0", "1", "2", "3", "4", "5", "6", "7", "8", "9">>

IsDigit(c) == \E d \in 1..10 : DigitChars[d] = c

DigitValue(c) == (CHOOSE d \in 1..10 : DigitChars[d] = c) - 1

RECURSIVE DigitsValue(_)
DigitsValue(s) ==
    IF Len(s) = 0 THEN 0
    ELSE 10 * DigitsValue(SubSeq(s, 1, Len(s) - 1)) + DigitValue(s[Len(s)])

\* Number(cell.displayValue) (part_000:155) on display values made of an
\* optional sign and decimal digits; the empty string is 0, anything else NaN
NumberOf(s) ==
    IF Len(s) = 0 THEN [nan |-> FALSE, value |-> 0]
    ELSE IF \A i \in 1..Len(s) : IsDigit(s[i]) THEN [nan |-> FALSE, value |-> DigitsValue(s)]
    ELSE IF s[1] = "-" /\ Len(s) > 1 /\ \A i \in 2..Len(s) : IsDigit(s[i])
         THEN [nan |-> FALSE, value |-> 0 - DigitsValue(Tail(s))]
    ELSE [nan |-> TRUE, value |-> 0]

\* what getCountRowsInserted returns once the provider lookup has succeeded,
\* from the value `results` holds when line 151 reads it (part_000:151-162):
\* results.rows of undefined, or rows[0] of an empty result, is a TypeError
\* that the catch turns into -1
CountFromResults(results) ==
    IF ~results.defined THEN -1
    ELSE IF Len(results.rows) = 0 THEN -1
    ELSE IF Len(results.rows[1]) = 0 THEN -1
    ELSE LET cell == results.rows[1][1]
             numericCell == NumberOf(cell.displayValue)
         IN IF cell.isNull THEN -1
            ELSE IF numericCell.nan THEN -1
            ELSE numericCell.value

\* the texts of handleImport (part_000:103, 112, 114); the marks stand for the
\* cross and check characters of the source
Cross == "(cross) "
SuccessNoCount == <<"(check) Awesome! You have successfully inserted the data into a table.">>
SuccessWithRows(rows) ==
    <<"(check) Awesome! You have successfully inserted ", ToString(rows), " rows.">>

\* FailureText that always appends err, also for an unsuccessful response
FailureText_AlwaysErr(result, err) ==
    <<Cross>> \o err

\* updateText of a failed insert (part_000:102-108)
FailureText(result, err) ==
    IF ~result.defined THEN <<Cross>> \o err ELSE <<Cross, result.errorMessage>>

\* updateText after getCountRowsInserted returned rows (part_000:111-115)
SuccessText(rows) ==
    IF rows < 0 THEN SuccessNoCount ELSE SuccessWithRows(rows)

----------------------------------------------------------------------------
(* SummaryPage: the handlers *)

\* The frame of one onPageEnter invocation: the position of its continuation
\* and the locals of handleImport and getCountRowsInserted.
\*   pc               "credentials": awaiting getCredentials (part_000:134)
\*                    "insert": awaiting sendInsertDataRequest (part_000:92)
\*                    "done": onPageEnter returned true
\*                    "rejected": the promise of onPageEnter rejected
\*   changeColumnResults, result, err, updateText, results: the locals
\*   log              the requests issued to the collaborators, in order
\*   rows             <<r>> once getCountRowsInserted has returned r
\*   thrown           the error that reached the catch of part_000:97
\*   providerError    the error thrown by getProvider (part_000:142)
\*   countPending     the then-callback of part_000:148 has not run yet
NewRun ==
    [pc |-> "credentials", changeColumnResults |-> <<>>, log |-> <<>>,
     connectionString |-> <<>>, thrown |-> NoError, err |-> <<>>,
     result |-> NoResult, providerError |-> NoError, countPending |-> FALSE,
     countRejected |-> FALSE, results |-> NoResults, rows |-> <<>>,
     updateText |-> <<>>]

\* handleImport up to its first external await (part_000:76-96): the forEach
\* dispatches the column then the connection string is built; with
\* integrated authentication it needs no lookup and the insert request is sent
StartImport(m) ==
    LET r0 == [NewRun EXCEPT !.changeColumnResults = ColumnChangeParams(m.proseColumns),
                             !.log = ColumnChangeLog(m.proseColumns)]
    IN IF ConnOptions(m.server).authenticationType = "Integrated"
       THEN [r0 EXCEPT !.pc = "insert",
                       !.connectionString = IntegratedConnectionString(m),
                       !.log = Append(r0.log, LogEntry("insert"))]
       ELSE [r0 EXCEPT !.pc = "credentials",
                       !.log = Append(r0.log, LogEntry("getCredentials"))]

\* the catch of part_000:97-99 and the failure branch of part_000:102-108
CaughtInsertError(r, e) ==
    LET err == ErrorToString(e)
    IN [r EXCEPT !.pc = "done", !.thrown = e, !.err = err,
                 !.updateText = FailureText(r.result, err)]

\* part_000:102-108 for a response with success = false
UnsuccessfulInsert(r, res) ==
    [r EXCEPT !.pc = "done", !.result = res, !.updateText = FailureText(res, r.err)]

\* getCountRowsInserted after the provider lookup (part_000:145-162) and the
\* success branch of handleImport (part_000:110-115).  runQueryAndReturn is
\* called and not awaited: its then-callback runs in a later turn, so line 151
\* reads `results` as this frame holds it when the call returns.
CountedInsert(r, res) ==
    LET rows == CountFromResults(r.results)
    IN [r EXCEPT !.pc = "done", !.result = res,
                 !.log = r.log \o <<LogEntry("getProvider"), LogEntry("countQuery")>>,
                 !.countPending = TRUE,
                 !.rows = <<rows>>,
                 !.updateText = SuccessText(rows)]

\* getProvider throws outside the try of getCountRowsInserted (part_000:142):
\* the promises of getCountRowsInserted, handleImport and onPageEnter reject
ProviderLookupThrows(r, res, e) ==
    [r EXCEPT !.pc = "rejected", !.result = res, !.providerError = e,
              !.log = Append(r.log, LogEntry("getProvider"))]

\* the page after handleImport of frame r has settled: part_000:117-119 and
\* part_000:50-51 when it returned, nothing when it rejected
SettlePage(r) ==
    IF r.pc = "done"
    THEN /\ statusText' = r.updateText
         /\ loading' = FALSE
         /\ importAnotherFileVisible' = TRUE
    ELSE UNCHANGED <<statusText, loading, importAnotherFileVisible>>

\* onPageEnter (part_000:46-49) up to the first await of an external request
SummaryOnPageEnter ==
    /\ ~sumActive
    /\ Len(sumRuns) < MaxEnters
    /\ model.server /= Undefined
    /\ sumActive' = TRUE
    /\ loading' = TRUE
    /\ tableData' = PopulateTable(model)
    /\ sumRuns' = Append(sumRuns, StartImport(model))
    /\ UNCHANGED <<cfgVars, model, statusText, importAnotherFileVisible>>

\* sqlops.connection.getCredentials resolves (part_000:134-135, 92)
GetCredentialsResolves(i, password) ==
    /\ sumRuns[i].pc = "credentials"
    /\ sumRuns' = [sumRuns EXCEPT ![i] =
            [@ EXCEPT !.pc = "insert",
                      !.connectionString = CredentialConnectionString(model, password),
                      !.log = Append(@, LogEntry("insert"))]]
    /\ UNCHANGED <<cfgVars, model, loading, statusText, tableData, importAnotherFileVisible, sumActive>>

\* sqlops.connection.getCredentials rejects: the await of part_000:93 throws
\* inside the try, before sendInsertDataRequest is called
GetCredentialsRejects(i, e) ==
    /\ sumRuns[i].pc = "credentials"
    /\ LET r == CaughtInsertError(sumRuns[i], e)
       IN /\ sumRuns' = [sumRuns EXCEPT ![i] = r]
          /\ SettlePage(r)
    /\ UNCHANGED <<cfgVars, model, tableData, sumActive>>

\* a catch that also resets the table of the model
InsertRejects_ResetsTable(i, e) ==
    /\ sumRuns[i].pc = "insert"
    /\ LET r == CaughtInsertError(sumRuns[i], e)
       IN /\ sumRuns' = [sumRuns EXCEPT ![i] = r]
          /\ SettlePage(r)
    /\ model' = [model EXCEPT !.table = UndefinedText]
    /\ UNCHANGED <<cfgVars, tableData, sumActive>>

\* sendInsertDataRequest rejects (part_000:97-99)
InsertRejects(i, e) ==
    /\ sumRuns[i].pc = "insert"
    /\ LET r == CaughtInsertError(sumRuns[i], e)
       IN /\ sumRuns' = [sumRuns EXCEPT ![i] = r]
          /\ SettlePage(r)
    /\ UNCHANGED <<cfgVars, model, tableData, sumActive>>

\* sendInsertDataRequest resolves (part_000:92-119, 141-163); getProvider
\* returns a provider or throws
InsertResolves(i, res, lookup) ==
    /\ sumRuns[i].pc = "insert"
    /\ LET r == IF ~res.success THEN UnsuccessfulInsert(sumRuns[i], res)
                ELSE IF lookup = NoError THEN CountedInsert(sumRuns[i], res)
                ELSE ProviderLookupThrows(sumRuns[i], res, lookup)
       IN /\ sumRuns' = [sumRuns EXCEPT ![i] = r]
          /\ SettlePage(r)
    /\ UNCHANGED <<cfgVars, model, tableData, sumActive>>

\* the row-count query resolves: the callback of part_000:148-150 assigns the
\* local `results` of a getCountRowsInserted that has already returned
CountQueryResolves(i, res) ==
    /\ sumRuns[i].countPending
    /\ sumRuns' = [sumRuns EXCEPT ![i] = [@ EXCEPT !.countPending = FALSE, !.results = res]]
    /\ UNCHANGED <<cfgVars, model, loading, statusText, tableData, importAnotherFileVisible, sumActive>>

\* the row-count query rejects: the promise of part_000:148 has no rejection
\* handler, nothing of the page changes
CountQueryRejects(i) ==
    /\ sumRuns[i].countPending
    /\ sumRuns' = [sumRuns EXCEPT ![i] = [@ EXCEPT !.countPending = FALSE, !.countRejected = TRUE]]
    /\ UNCHANGED <<cfgVars, model, loading, statusText, tableData, importAnotherFileVisible, sumActive>>

\* onPageLeave (part_000:56-60)
SummaryOnPageLeave ==
    /\ sumActive
    /\ sumActive' = FALSE
    /\ importAnotherFileVisible' = FALSE
    /\ UNCHANGED <<cfgVars, model, sumRuns, loading, statusText, tableData>>

\* The summary page is entered with a model the earlier pages have filled.
SummaryInit ==
    /\ model \in [server : Connections, database : {"db1"}, schema : {"dbo"},
                  table : {<<"a">>}, filePath : {<<"/", "a", ".", "c">>},
                  proseColumns : ColumnLists]
    /\ sumRuns = <<>>
    /\ loading = FALSE
    /\ statusText = <<>>
    /\ tableData = <<>>
    /\ importAnotherFileVisible \in BOOLEAN
    /\ sumActive = FALSE
    /\ server = model.server
    /\ tableNames = <<>>
    /\ serverDropdown = <<>>
    /\ databaseDropdown = <<>>
    /\ schemaDropdown = <<>>
    /\ fileTextBox = model.filePath
    /\ tableNameTextBox = model.table
    /\ tableNameValid = TRUE
    /\ tasks = EmptyBag
    /\ rejections = {}
    /\ lastAnswer = NoAnswer
    /\ lastChange = [kind |-> "none", name |-> Undefined]
    /\ cfgActive = FALSE

SummaryNext ==
    \/ SummaryOnPageEnter
    \/ SummaryOnPageLeave
    \/ \E i \in 1..Len(sumRuns), password \in Passwords : GetCredentialsResolves(i, password)
    \/ \E i \in 1..Len(sumRuns), e \in Errors : GetCredentialsRejects(i, e)
    \/ \E i \in 1..Len(sumRuns), e \in Errors : InsertRejects(i, e)
    \/ \E i \in 1..Len(sumRuns), res \in InsertResults, lookup \in Errors \cup {NoError} :
            InsertResolves(i, res, lookup)
    \/ \E i \in 1..Len(sumRuns), res \in CountResults : CountQueryResolves(i, res)
    \/ \E i \in 1..Len(sumRuns) : CountQueryRejects(i)

SpecSummary == SummaryInit /\ [][SummaryNext]_vars

----------------------------------------------------------------------------
(* SummaryPage: properties *)

Settled(r) == r.pc \in {"done", "rejected"}

OpCount(r, op) == Cardinality({k \in 1..Len(r.log) : r.log[k].op = op})

\* the first N requests of frame r are the column requests 0..N-1 of the N
\* descriptors of the model, and no column request follows them
ColumnRequestsFirst(r) ==
    LET n == Len(model.proseColumns)
    IN /\ Len(r.log) >= n
       /\ Len(r.changeColumnResults) = n
       /\ \A k \in 1..n : r.log[k] = [op |-> "changeColumn", index |-> k - 1]
       /\ \A k \in 1..n : r.changeColumnResults[k].index = k - 1
       /\ \A k \in (n + 1)..Len(r.log) : r.log[k].op /= "changeColumn"

\* the credential lookup of frame r failed: the catch was reached before a
\* connection string existed
CredentialLookupFailed(r) == r.thrown /= NoError /\ r.connectionString = <<>>

\* C1 as stated: every commit attempt dispatches the N column requests 0..N-1
\* before the insert request, and once it has ended it has issued exactly one
\* insert request, also when the credential lookup failed.
C1_ExactlyOneInsertAlways ==
    \A i \in 1..Len(sumRuns) :
        /\ ColumnRequestsFirst(sumRuns[i])
        /\ Settled(sumRuns[i]) => OpCount(sumRuns[i], "insert") = 1

\* C1 amended: every commit attempt dispatches the N column requests 0..N-1
\* before any insert request and issues at most one insert request; an ended
\* attempt has issued exactly one, except that it has issued none when the
\* credential lookup for the connection string failed.
C1_ColumnRequestsThenAtMostOneInsert ==
    \A i \in 1..Len(sumRuns) :
        LET r == sumRuns[i]
        IN /\ ColumnRequestsFirst(r)
           /\ OpCount(r, "insert") <= 1
           /\ r.pc = "credentials" => OpCount(r, "insert") = 0
           /\ r.pc = "insert" => OpCount(r, "insert") = 1
           /\ Settled(r) =>
                OpCount(r, "insert") = (IF CredentialLookupFailed(r) THEN 0 ELSE 1)

\* two ended attempts on a model with two descriptors: one sent its insert
\* request, the other lost its credential lookup
C1_Witness ==
    /\ Len(model.proseColumns) >= 2
    /\ \E i, j \in 1..Len(sumRuns) :
        /\ Settled(sumRuns[i]) /\ OpCount(sumRuns[i], "insert") = 1
        /\ OpCount(sumRuns[i], "changeColumn") = Len(model.proseColumns)
        /\ Settled(sumRuns[j]) /\ CredentialLookupFailed(sumRuns[j])

\* the first cell of the row-count result of frame r is non-null and numeric
\* with a value >= 0
ResolvedCount(r) ==
    /\ r.results.defined
    /\ Len(r.results.rows) > 0
    /\ Len(r.results.rows[1]) > 0
    /\ ~r.results.rows[1][1].isNull
    /\ ~NumberOf(r.results.rows[1][1].displayValue).nan
    /\ NumberOf(r.results.rows[1][1].displayValue).value >= 0

\* C2: when the insert succeeded and the row-count query resolved to a numeric
\* first cell R >= 0, the status text written by handleImport is the success
\* message with R in it.
C2_StatusContainsRowCount ==
    \A i \in 1..Len(sumRuns) :
        LET r == sumRuns[i]
        IN (r.pc = "done" /\ r.result.success /\ ResolvedCount(r)) =>
              r.updateText =
                  SuccessWithRows(NumberOf(r.results.rows[1][1].displayValue).value)

LogHas(r, op) == \E k \in 1..Len(r.log) : r.log[k].op = op

\* C3: a failed insert (the request or the building of its connection string
\* threw, or the response has success = false) ends handleImport normally with
\* a failure text that holds the error, and no row-count query is issued.
C3_InsertFailureIsReported ==
    \A i \in 1..Len(sumRuns) :
        LET r == sumRuns[i]
        IN /\ r.thrown /= NoError =>
                /\ r.pc = "done"
                /\ r.updateText = <<Cross>> \o ErrorToString(r.thrown)
                /\ r.thrown.message \in Range(r.updateText)
                /\ ~LogHas(r, "countQuery") /\ ~LogHas(r, "getProvider")
           /\ (r.result.defined /\ ~r.result.success) =>
                /\ r.pc = "done"
                /\ r.updateText = <<Cross, r.result.errorMessage>>
                /\ ~LogHas(r, "countQuery") /\ ~LogHas(r, "getProvider")

\* a frame whose insert request threw and a frame whose response was
\* unsuccessful, the text of the later one on the page
C3_Witness ==
    \E i, j \in 1..Len(sumRuns) :
        /\ sumRuns[i].thrown /= NoError /\ LogHas(sumRuns[i], "insert")
        /\ sumRuns[j].result.defined /\ ~sumRuns[j].result.success
        /\ sumRuns[j].pc = "done"
        /\ statusText = sumRuns[j].updateText

\* obtaining the row count of frame r failed
CountFailed(r) ==
    \/ r.providerError /= NoError
    \/ r.countRejected
    \/ r.results.defined /\ ~ResolvedCount(r)

\* C4: after a successful insert every failure while obtaining the row count
\* is swallowed: getCountRowsInserted returns -1, the text is the success
\* message without a count, and handleImport and onPageEnter do not reject.
C4_CountFailureIsSwallowed ==
    \A i \in 1..Len(sumRuns) :
        LET r == sumRuns[i]
        IN (r.result.success /\ CountFailed(r)) =>
              /\ r.pc = "done"
              /\ r.rows = <<-1>>
              /\ r.updateText = SuccessNoCount

\* C5: once every onPageEnter that was started has received the answers of
\* its the loading indicator is cleared, the table shows the model
\* and the status of the last commit is on the page.
C5_LoadingIsCleared ==
    (sumRuns /= <<>> /\ \A i \in 1..Len(sumRuns) : Settled(sumRuns[i])) =>
        /\ ~loading
        /\ tableData = PopulateTable(model)
        /\ \E i \in 1..Len(sumRuns) : statusText = sumRuns[i].updateText

\* C6: after onPageLeave, and until the summary page is entered again, the
\* 'import another file' visibility is false.
C6_HiddenAfterLeave ==
    (sumRuns /= <<>> /\ ~sumActive) => ~importAnotherFileVisible

----------------------------------------------------------------------------
(* FileConfigPage: the collaborators *)

\* in-flight continuations of the configuration page
MaxInFlight == 3

\* the lists sqlops.connection.getActiveConnections can return
ActiveConnectionLists == {<<>>, <<"c1", "c2">>, <<"c2", "c1">>}

\* what sqlops.connection.listDatabases returns for a connection
DatabasesOf(c) ==
    CASE c = "c1" -> <<"db1", "db2">>
      [] OTHER    -> <<>>

\* the rows of `SELECT name FROM sys.schemas` on a connection
SchemaRows(c) ==
    CASE c = "c1" -> << <<Cell(FALSE, "dbo")>>, <<Cell(FALSE, "sales")>> >>
      [] OTHER    -> <<>>

\* the rows of the INFORMATION_SCHEMA.TABLES query after `USE <database>`
TableRows(db) ==
    CASE db = "db1" -> << <<Cell(FALSE, <<"a">>)>> >>
      [] db = "db2" -> << <<Cell(FALSE, <<"b">>)>>, <<Cell(FALSE, <<"a", "b">>)>> >>
      [] OTHER      -> <<>>

\* the texts a user types into the table-name box
TypedNames == {<<>>, <<"a">>, <<"b">>}

\* the files a user picks in the open dialog: /a.c, /ab (no extension) and
\* /d.e/b (a dot in a directory name only)
BrowsedFiles ==
    {[path |-> p, fsPath |-> p] :
        p \in { <<"/", "a", ".", "c">>,
                <<"/", "a", "b">>,
                <<"/", "d", ".", "e", "/", "b">> }}

----------------------------------------------------------------------------
(* FileConfigPage: pure parts *)

Min(a, b) == IF a < b THEN a ELSE b
Max(a, b) == IF a > b THEN a ELSE b

\* Array.prototype.indexOf / String.prototype.lastIndexOf: 0-based, -1 when
\* the element does not occur
IndexOf(s, x) ==
    IF \E i \in 1..Len(s) : s[i] = x
    THEN (CHOOSE i \in 1..Len(s) : s[i] = x /\ \A j \in 1..(i - 1) : s[j] /= x) - 1
    ELSE -1

LastIndexOf(s, x) ==
    IF \E i \in 1..Len(s) : s[i] = x
    THEN (CHOOSE i \in 1..Len(s) : s[i] = x /\ \A j \in (i + 1)..Len(s) : s[j] /= x) - 1
    ELSE -1

\* String.prototype.substring(start, end): both indices are clamped to
\* 0..length and swapped when start > end
Substring(s, start, end) ==
    LET a == Max(0, Min(start, Len(s)))
        b == Max(0, Min(end, Len(s)))
    IN SubSeq(s, Min(a, b) + 1, Max(a, b))

\* the validation of the table-name box that only rejects the empty name
ValidateTableName_NoDuplicateCheck(names, tableName) ==
    ~(tableName = UndefinedText \/ Len(tableName) = 0)

\* the validation function of the table-name box (sqlExtHostTypes.ts:546-558)
ValidateTableName(names, tableName) ==
    IF tableName = UndefinedText \/ Len(tableName) = 0 THEN FALSE
    ELSE IF IndexOf(names, tableName) /= -1 THEN FALSE
    ELSE TRUE

\* the table name the browse handler derives from a file URI
\* (sqlExtHostTypes.ts:522-530)
DerivedTableName(path) ==
    LET nameStart == LastIndexOf(path, "/")
        dot == LastIndexOf(path, ".")
        nameEnd == IF dot = 0 THEN Len(path) ELSE dot
    IN Substring(path, nameStart + 1, nameEnd)

\* one entry of the server dropdown (sqlExtHostTypes.ts:453-472)
ServerValue(c) ==
    LET db == IF ConnOptions(c).databaseDisplayName = "" THEN "<default>"
              ELSE ConnOptions(c).databaseDisplayName
        usr == IF ConnOptions(c).user = "" THEN "default" ELSE ConnOptions(c).user
    IN [connection |-> c,
        displayName |-> <<ConnOptions(c).server, ", ", db, " (", usr, ")">>,
        name |-> c]

\* the server dropdown filled in the opposite order of the connection list
ServerValues_Reversed(cons) == [i \in 1..Len(cons) |-> ServerValue(cons[Len(cons) + 1 - i])]

ServerValues(cons) == [i \in 1..Len(cons) |-> ServerValue(cons[i])]

\* the CategoryValue list built from names (sqlExtHostTypes.ts:607-610, 651-654)
CategoryValues(names) == [i \in 1..Len(names) |-> [displayName |-> names[i], name |-> names[i]]]

\* row[0].displayValue of every row (sqlExtHostTypes.ts:643-655, 684-686)
DisplayValues(rows) == [i \in 1..Len(rows) |-> rows[i][1].displayValue]

Names(values) == {values[i].name : i \in 1..Len(values)}

----------------------------------------------------------------------------
(* FileConfigPage: the handlers *)

\* A continuation awaiting the response of an external request.
\*   origin        "enter", "serverChanged" or "databaseChanged": the handler
\*                 whose promise chain it belongs to
\*   step          the request it awaits: "getActiveConnections",
\*                 "listDatabases", "schemaQuery" or "tablesQuery".  A query
\*                 step stands for getUriForConnection followed by
\*                 runQueryAndReturn on that URI: between the two responses
\*                 the code reads this.server.providerName only (lines 636,
\*                 672), which is the same for every connection, and writes
\*                 nothing, so the two awaits are one step here
\*   connectionId  the connection the request was issued for
\*   databaseName  the local databaseName of populateTableNames
Task(origin, step, connectionId, databaseName) ==
    [origin |-> origin, step |-> step, connectionId |-> connectionId,
     databaseName |-> databaseName]

Rejection(origin, in) == [origin |-> origin, in |-> in]

\* the in-flight continuations form a bag: responses arrive in any order
InFlight == BagCardinality(tasks)

Start(t) == tasks (+) SetToBag({t})

Finish(t) == tasks (-) SetToBag({t})

\* onPageEnter (sqlExtHostTypes.ts:431-434): starts the chain and returns
\* true; populateServerDropdown runs up to its await of getActiveConnections
ConfigOnPageEnter ==
    /\ ~cfgActive
    /\ InFlight < MaxInFlight
    /\ cfgActive' = TRUE
    /\ tasks' = Start(Task("enter", "getActiveConnections", Undefined, Undefined))
    /\ UNCHANGED <<model, server, tableNames, serverDropdown, databaseDropdown,
                   schemaDropdown, fileTextBox, tableNameTextBox, tableNameValid, lastChange>>
    /\ rejections' = {}
    /\ lastAnswer' = NoAnswer
    /\ UNCHANGED sumVars

\* onPageLeave (sqlExtHostTypes.ts:436-439): logs and returns true
ConfigOnPageLeave ==
    /\ cfgActive
    /\ cfgActive' = FALSE
    /\ UNCHANGED <<model, server, tableNames, serverDropdown, databaseDropdown,
                   schemaDropdown, fileTextBox, tableNameTextBox, tableNameValid,
                   tasks, lastChange>>
    /\ rejections' = {}
    /\ lastAnswer' = NoAnswer
    /\ UNCHANGED sumVars

\* getActiveConnections resolves with cons: the rest of populateServerDropdown
\* (sqlExtHostTypes.ts:442-475), then the next link of the chain of line 432.
\* That link is the method populateDatabaseDropdown passed to then() as a bare
\* function reference: it is called with `this` undefined (the file is strict
\* code), so its first statement, this.databaseDropdown (line 590), throws a
\* TypeError, the chain rejects and populateSchemaDropdown is never called.
GetActiveConnectionsResolves(t, cons) ==
    /\ t.step = "getActiveConnections"
    /\ IF Len(cons) = 0
       THEN UNCHANGED <<server, model, serverDropdown>>
       ELSE /\ server' = cons[1]
            /\ model' = [model EXCEPT !.server = cons[1]]
            /\ serverDropdown' = ServerValues(cons)
    /\ lastAnswer' = cons
    /\ rejections' = {Rejection(t.origin, "populateDatabaseDropdown")}
    /\ tasks' = Finish(t)
    /\ UNCHANGED <<tableNames, databaseDropdown, schemaDropdown, fileTextBox,
                   tableNameTextBox, tableNameValid, lastChange, cfgActive>>
    /\ UNCHANGED sumVars

\* a server change that assigns this.server and leaves model.server alone
ServerChanged_PrivateOnly(c) ==
    /\ cfgActive
    /\ c \in Names(serverDropdown)
    /\ c /= server
    /\ InFlight < MaxInFlight
    /\ server' = c
    /\ databaseDropdown' = <<>>
    /\ schemaDropdown' = <<>>
    /\ tasks' = Start(Task("serverChanged", "listDatabases", c, Undefined))
    /\ lastChange' = [kind |-> "server", name |-> c]
    /\ UNCHANGED <<model, tableNames, serverDropdown, fileTextBox, tableNameTextBox,
                   tableNameValid, cfgActive>>
    /\ rejections' = {}
    /\ lastAnswer' = NoAnswer
    /\ UNCHANGED sumVars

\* the user selects another server: onValueChanged of the server dropdown
\* (sqlExtHostTypes.ts:574-579) and populateDatabaseDropdown up to its await
\* of listDatabases (lines 587-600)
ServerChanged(c) ==
    /\ cfgActive
    /\ c \in Names(serverDropdown)
    /\ c /= server
    /\ InFlight < MaxInFlight
    /\ server' = c
    /\ model' = [model EXCEPT !.server = c]
    /\ databaseDropdown' = <<>>
    /\ schemaDropdown' = <<>>
    /\ tasks' = Start(Task("serverChanged", "listDatabases", c, Undefined))
    /\ lastChange' = [kind |-> "server", name |-> c]
    /\ UNCHANGED <<tableNames, serverDropdown, fileTextBox, tableNameTextBox,
                   tableNameValid, cfgActive>>
    /\ rejections' = {}
    /\ lastAnswer' = NoAnswer
    /\ UNCHANGED sumVars

\* listDatabases resolves: the rest of populateDatabaseDropdown (lines
\* 600-617), then populateSchemaDropdown up to its await of
\* getUriForConnection for the connection this.server holds now (line 635)
ListDatabasesResolves(t) ==
    /\ t.step = "listDatabases"
    /\ LET dbs == DatabasesOf(t.connectionId)
       IN /\ model' = IF Len(dbs) > 0 THEN [model EXCEPT !.database = dbs[1]] ELSE model
          /\ databaseDropdown' = CategoryValues(dbs)
    /\ tasks' = Finish(t) (+) SetToBag({Task(t.origin, "schemaQuery", server, Undefined)})
    /\ UNCHANGED <<server, tableNames, serverDropdown, schemaDropdown, fileTextBox,
                   tableNameTextBox, tableNameValid,
                   lastChange, cfgActive>>
    /\ rejections' = {}
    /\ lastAnswer' = NoAnswer
    /\ UNCHANGED sumVars

\* the schema query resolves: the rest of populateSchemaDropdown (lines 642-660)
SchemaQueryResolves(t) ==
    /\ t.step = "schemaQuery"
    /\ LET schemas == DisplayValues(SchemaRows(t.connectionId))
       IN /\ model' = IF Len(schemas) > 0 THEN [model EXCEPT !.schema = schemas[1]] ELSE model
          /\ schemaDropdown' = CategoryValues(schemas)
    /\ tasks' = Finish(t)
    /\ UNCHANGED <<server, tableNames, serverDropdown, databaseDropdown, fileTextBox,
                   tableNameTextBox, tableNameValid,
                   lastChange, cfgActive>>
    /\ rejections' = {}
    /\ lastAnswer' = NoAnswer
    /\ UNCHANGED sumVars

\* the schema query rejects: the await of line 640 throws, nothing catches it
\* and the promise of populateSchemaDropdown rejects
SchemaQueryRejects(t) ==
    /\ t.step = "schemaQuery"
    /\ rejections' = {Rejection(t.origin, "populateSchemaDropdown")}
    /\ tasks' = Finish(t)
    /\ UNCHANGED <<model, server, tableNames, serverDropdown, databaseDropdown,
                   schemaDropdown, fileTextBox, tableNameTextBox, tableNameValid, lastChange, cfgActive>>
    /\ lastAnswer' = NoAnswer
    /\ UNCHANGED sumVars

\* the user selects another database: onValueChanged of the database dropdown
\* (sqlExtHostTypes.ts:481-486); populateTableNames (lines 663-671) and
\* populateSchemaDropdown (line 635) both run up to their await of
\* getUriForConnection, neither is awaited
DatabaseChanged(db) ==
    /\ cfgActive
    /\ db \in Names(databaseDropdown)
    /\ db /= model.database
    /\ InFlight + 2 <= MaxInFlight
    /\ model' = [model EXCEPT !.database = db]
    /\ tasks' = tasks (+) SetToBag({Task("databaseChanged", "tablesQuery", server, db),
                                    Task("databaseChanged", "schemaQuery", server, Undefined)})
    /\ lastChange' = [kind |-> "database", name |-> db]
    /\ UNCHANGED <<server, tableNames, serverDropdown, databaseDropdown, schemaDropdown,
                   fileTextBox, tableNameTextBox, tableNameValid, cfgActive>>
    /\ rejections' = {}
    /\ lastAnswer' = NoAnswer
    /\ UNCHANGED sumVars

\* the table-name query resolves: the rest of populateTableNames (lines 684-690)
TablesQueryResolves(t) ==
    /\ t.step = "tablesQuery"
    /\ tableNames' = DisplayValues(TableRows(t.databaseName))
    /\ tasks' = Finish(t)
    /\ UNCHANGED <<model, server, serverDropdown, databaseDropdown, schemaDropdown,
                   fileTextBox, tableNameTextBox, tableNameValid, lastChange, cfgActive>>
    /\ rejections' = {}
    /\ lastAnswer' = NoAnswer
    /\ UNCHANGED sumVars

\* the table-name query rejects: the catch of lines 679-682 logs the error and
\* returns false
TablesQueryRejects(t) ==
    /\ t.step = "tablesQuery"
    /\ tasks' = Finish(t)
    /\ UNCHANGED <<model, server, tableNames, serverDropdown, databaseDropdown,
                   schemaDropdown, fileTextBox, tableNameTextBox, tableNameValid, lastChange, cfgActive>>
    /\ rejections' = {}
    /\ lastAnswer' = NoAnswer
    /\ UNCHANGED sumVars

\* the user selects another schema: onValueChanged of the schema dropdown
\* (sqlExtHostTypes.ts:623-625)
SchemaChanged(name) ==
    /\ cfgActive
    /\ name \in Names(schemaDropdown)
    /\ name /= model.schema
    /\ model' = [model EXCEPT !.schema = name]
    /\ lastChange' = [kind |-> "schema", name |-> name]
    /\ UNCHANGED <<server, tableNames, serverDropdown, databaseDropdown, schemaDropdown,
                   fileTextBox, tableNameTextBox, tableNameValid, tasks, cfgActive>>
    /\ rejections' = {}
    /\ lastAnswer' = NoAnswer
    /\ UNCHANGED sumVars

\* the user edits the table-name box: onTextChanged (sqlExtHostTypes.ts:560-562)
TableNameTextChanged(tableName) ==
    /\ cfgActive
    /\ tableName /= tableNameTextBox
    /\ tableNameTextBox' = tableName
    /\ model' = [model EXCEPT !.table = tableName]
    /\ UNCHANGED <<server, tableNames, serverDropdown, databaseDropdown, schemaDropdown,
                   fileTextBox, tableNameValid, tasks, lastChange, cfgActive>>
    /\ rejections' = {}
    /\ lastAnswer' = NoAnswer
    /\ UNCHANGED sumVars

\* the user clicks Browse and picks a file: onDidClick of the file button
\* (sqlExtHostTypes.ts:500-536), from the return of showOpenDialog
FilePicked(fileUri) ==
    /\ cfgActive
    /\ fileTextBox' = fileUri.fsPath
    /\ tableNameTextBox' = DerivedTableName(fileUri.path)
    /\ model' = [model EXCEPT !.table = DerivedTableName(fileUri.path),
                              !.filePath = fileUri.fsPath]
    /\ tableNameValid' = ValidateTableName(tableNames, DerivedTableName(fileUri.path))
    /\ UNCHANGED <<server, tableNames, serverDropdown, databaseDropdown, schemaDropdown,
                   tasks, lastChange, cfgActive>>
    /\ rejections' = {}
    /\ lastAnswer' = NoAnswer
    /\ UNCHANGED sumVars

\* the user clicks Browse and closes the dialog without a file: the handler
\* returns at sqlExtHostTypes.ts:514-516
FileDialogCancelled ==
    /\ cfgActive
    /\ rejections' = {}
    /\ lastAnswer' = NoAnswer
    /\ UNCHANGED <<model, server, tableNames, serverDropdown, databaseDropdown,
                   schemaDropdown, fileTextBox, tableNameTextBox, tableNameValid,
                   tasks, lastChange, cfgActive>>
    /\ UNCHANGED sumVars

\* The state after construction and start() (sqlExtHostTypes.ts:405-429).
ConfigInit ==
    /\ model = [server |-> Undefined, database |-> Undefined, schema |-> Undefined,
                table |-> UndefinedText, filePath |-> UndefinedText,
                proseColumns |-> <<>>]
    /\ sumRuns = <<>>
    /\ loading = FALSE
    /\ statusText = <<>>
    /\ tableData = <<>>
    /\ importAnotherFileVisible = FALSE
    /\ sumActive = FALSE
    /\ server = Undefined
    /\ tableNames = <<>>
    /\ serverDropdown = <<>>
    /\ databaseDropdown = <<>>
    /\ schemaDropdown = <<>>
    /\ fileTextBox = UndefinedText
    /\ tableNameTextBox = UndefinedText
    /\ tableNameValid = TRUE
    /\ tasks = EmptyBag
    /\ rejections = {}
    /\ lastAnswer = NoAnswer
    /\ lastChange = [kind |-> "none", name |-> Undefined]
    /\ cfgActive = FALSE

\* The population of the page: page entry and leave, the dropdown selections
\* and the responses of the collaborators, with every interleaving of up to
\* MaxInFlight pending responses.  The two handlers of the table-name box and
\* the file button are left to FileInputNext: they write model.table,
\* model.filePath and the two text boxes only, which no step below reads.
ConfigNext ==
    \/ ConfigOnPageEnter
    \/ ConfigOnPageLeave
    \/ \E t \in BagToSet(tasks), cons \in ActiveConnectionLists : GetActiveConnectionsResolves(t, cons)
    \/ \E c \in Connections : ServerChanged(c)
    \/ \E t \in BagToSet(tasks) : ListDatabasesResolves(t)
    \/ \E t \in BagToSet(tasks) : SchemaQueryResolves(t)
    \/ \E t \in BagToSet(tasks) : SchemaQueryRejects(t)
    \/ \E db \in {"db1", "db2"} : DatabaseChanged(db)
    \/ \E t \in BagToSet(tasks) : TablesQueryResolves(t)
    \/ \E t \in BagToSet(tasks) : TablesQueryRejects(t)
    \/ \E name \in {"dbo", "sales"} : SchemaChanged(name)

SpecConfig == ConfigInit /\ [][ConfigNext]_vars

\* The page with its table-name box and file button, used by a user who lets
\* a population finish before entering the page or changing a selection again.
FileInputNext ==
    \/ InFlight = 0 /\ ConfigOnPageEnter
    \/ ConfigOnPageLeave
    \/ \E t \in BagToSet(tasks), cons \in ActiveConnectionLists : GetActiveConnectionsResolves(t, cons)
    \/ \E c \in Connections : InFlight = 0 /\ ServerChanged(c)
    \/ \E t \in BagToSet(tasks) : ListDatabasesResolves(t)
    \/ \E t \in BagToSet(tasks) : SchemaQueryResolves(t)
    \/ \E t \in BagToSet(tasks) : SchemaQueryRejects(t)
    \/ \E db \in {"db1", "db2"} : InFlight = 0 /\ DatabaseChanged(db)
    \/ \E t \in BagToSet(tasks) : TablesQueryResolves(t)
    \/ \E t \in BagToSet(tasks) : TablesQueryRejects(t)
    \/ \E name \in {"dbo", "sales"} : SchemaChanged(name)
    \/ \E tableName \in TypedNames : TableNameTextChanged(tableName)
    \/ \E fileUri \in BrowsedFiles : FilePicked(fileUri)
    \/ FileDialogCancelled

SpecFileInput == ConfigInit /\ [][FileInputNext]_vars

\* One visit of the page in which every request is answered with a result:
\* the page is entered once and not left, no query fails, and the user changes
\* selections while earlier responses are still pending.
SingleVisitNext ==
    \/ ConfigOnPageEnter
    \/ \E t \in BagToSet(tasks), cons \in ActiveConnectionLists : GetActiveConnectionsResolves(t, cons)
    \/ \E c \in Connections : ServerChanged(c)
    \/ \E t \in BagToSet(tasks) : ListDatabasesResolves(t)
    \/ \E t \in BagToSet(tasks) : SchemaQueryResolves(t)
    \/ \E db \in {"db1", "db2"} : DatabaseChanged(db)
    \/ \E t \in BagToSet(tasks) : TablesQueryResolves(t)
    \/ \E name \in {"dbo", "sales"} : SchemaChanged(name)

SpecSingleVisit == ConfigInit /\ [][SingleVisitNext]_vars

----------------------------------------------------------------------------
(* FileConfigPage: properties *)

\* names offered to the validation of the table-name box
CandidateNames == {<<>>, <<"a">>, <<"b">>, <<"a", "b">>, <<"c">>, <<"/">>}

\* C7: the validation of the table-name box accepts a name if and only if the
\* name is non-empty and is not an element of the table-name cache.
C7_ValidationAcceptsFreshNames ==
    \A n \in CandidateNames :
        ValidateTableName(tableNames, n) <=> (n /= <<>> /\ n \notin Range(tableNames))

\* the cache holds the two tables of db2; the validate() call of the browse
\* handler has rejected the derived name of an earlier state, and of the
\* candidates one is rejected as a duplicate and one is accepted
C7_Witness ==
    /\ Len(tableNames) = 2
    /\ model.table = <<"a">>
    /\ ~ValidateTableName(tableNames, <<"b">>)
    /\ ValidateTableName(tableNames, model.table)
    /\ ~tableNameValid

\* C8: whenever model.table has been set it is non-empty and is not a member
\* of the table-name cache of the page.
C8_ModelTableIsValid ==
    model.table /= UndefinedText =>
        (model.table /= <<>> /\ model.table \notin Range(tableNames))

\* C9: once the population started by a change of the database selection has
\* finished, model.database is the selected database, the table-name cache
\* holds the tables of that database (none when the query failed), the schema
\* list is the one queried (empty when the query failed or had no rows) and
\* model.schema is its first element; nothing of the previous database is left.
C9_DatabaseChangeRepopulates ==
    (lastChange.kind = "database" /\ InFlight = 0) =>
        /\ model.database = lastChange.name
        /\ tableNames \in {DisplayValues(TableRows(lastChange.name)), <<>>}
        /\ schemaDropdown \in {CategoryValues(DisplayValues(SchemaRows(server))), <<>>}
        /\ model.schema = (IF schemaDropdown /= <<>> THEN schemaDropdown[1].name ELSE Undefined)

\* C10: when a page entry receives an empty connection list (and no list with
\* a connection has been received before), model.server and this.server stay
\* unset, the entry has started no request besides getActiveConnections, and
\* no error is raised.
C10_EmptyListIsNoOp ==
    (lastAnswer = <<>> /\ serverDropdown = <<>>) =>
        /\ model.server = Undefined
        /\ server = Undefined
        /\ \A t \in BagToSet(tasks) : t.step = "getActiveConnections"
        /\ rejections = {}

\* C11: when getActiveConnections has answered a page entry with a non-empty
\* list, then after populateServerDropdown model.server (and this.server) is
\* the first connection of the list and the server dropdown holds one entry
\* per connection of the list, in the order of the list.
C11_FirstConnectionIsSelected ==
    (lastAnswer /= NoAnswer /\ lastAnswer /= <<>>) =>
        /\ model.server = lastAnswer[1]
        /\ server = lastAnswer[1]
        /\ Len(serverDropdown) = Len(lastAnswer)
        /\ \A i \in 1..Len(lastAnswer) :
              /\ serverDropdown[i].connection = lastAnswer[i]
              /\ serverDropdown[i].name = lastAnswer[i]
              /\ serverDropdown[i].displayName = ServerValue(lastAnswer[i]).displayName

\* the list c2, c1 has just been answered: c2 is selected and listed first
C11_Witness ==
    /\ lastAnswer = <<"c2", "c1">>
    /\ model.server = "c2"
    /\ Len(serverDropdown) = 2
    /\ serverDropdown[2].name = "c1"

\* C12: after a page entry that received a non-empty connection list, with
\* every population request finished and no dropdown changed by the user,
\* model.database is the first database of the selected (first) connection and
\* the validation of the table-name box rejects exactly the empty name and the
\* tables of that database.
C12_EntryDefaultsDatabaseAndTables ==
    (lastChange.kind = "none" /\ InFlight = 0 /\ serverDropdown /= <<>>
        /\ DatabasesOf(server) /= <<>>) =>
        /\ model.database = DatabasesOf(server)[1]
        /\ \A n \in CandidateNames :
              ValidateTableName(tableNames, n) <=>
                  (n /= <<>> /\ n \notin Range(DisplayValues(TableRows(DatabasesOf(server)[1]))))

----------------------------------------------------------------------------
(* SummaryPage: further properties *)

\* the segments host[,port] of the documented connection string
HostAndPort(c) ==
    IF ConnOptions(c).port = "" THEN <<ConnOptions(c).server>>
    ELSE <<ConnOptions(c).server, ",", ConnOptions(c).port>>

\* C13: every connection string getConnectionString has produced is
\* Data Source=<host>[,<port>];Initial Catalog=<database>;Integrated
\* Security=<True|False>[;User Id=<user>;Password=<password>] with the port
\* present iff the port option is set: with 'Integrated' authentication it
\* ends at Integrated Security=True, has no User Id and no Password segment
\* and no credential lookup was made; otherwise it has Integrated
\* Security=False, the user of the connection and a password the credential
\* lookup returned.
C13_ConnectionStringShapes ==
    \A i \in 1..Len(sumRuns) :
        LET r == sumRuns[i]
            cs == r.connectionString
            head == <<"Data Source=">> \o HostAndPort(model.server)
                        \o <<";Initial Catalog=", model.database>>
        IN cs /= <<>> =>
            IF ConnOptions(model.server).authenticationType = "Integrated"
            THEN /\ cs = head \o <<";Integrated Security=True">>
                 /\ ";User Id=" \notin Range(cs)
                 /\ ";Password=" \notin Range(cs)
                 /\ ~LogHas(r, "getCredentials")
            ELSE /\ \E password \in Passwords :
                        cs = head \o <<";Integrated Security=False",
                                       ";User Id=", ConnOptions(model.server).user,
                                       ";Password=", password>>
                 /\ LogHas(r, "getCredentials")

\* a connection string with credentials and without a port has been built
C13_Witness ==
    \E i \in 1..Len(sumRuns) :
        /\ sumRuns[i].connectionString /= <<>>
        /\ ConnOptions(model.server).authenticationType /= "Integrated"
        /\ ConnOptions(model.server).port = ""
        /\ sumRuns[i].pc = "insert"

\* C14: no step of the summary page (onPageEnter with populateTable,
\* handleImport, getConnectionString and getCountRowsInserted, their
\* continuations in every outcome of the insert request, and onPageLeave)
\* changes model.server, database, schema, table, filePath or proseColumns.
C14_SummaryNeverWritesModel ==
    [][ /\ model'.server = model.server
        /\ model'.database = model.database
        /\ model'.schema = model.schema
        /\ model'.table = model.table
        /\ model'.filePath = model.filePath
        /\ model'.proseColumns = model.proseColumns ]_vars

\* an insert request has thrown, its failure is shown and a second commit of
\* the same model has been started
C14_Witness ==
    /\ Len(sumRuns) = 2
    /\ sumRuns[1].pc = "done"
    /\ sumRuns[1].thrown /= NoError
    /\ LogHas(sumRuns[1], "insert")
    /\ statusText = sumRuns[1].updateText
    /\ sumRuns[2].log = sumRuns[1].log
    /\ tableData = PopulateTable(model)

----------------------------------------------------------------------------
(* FileConfigPage: further properties *)

\* C15: while the configuration page is not the active page (after
\* onPageLeave and until it is entered again) no step writes model.server,
\* model.database or model.schema.
C15_InactivePageWritesNothing ==
    [][ (~cfgActive /\ ~cfgActive') =>
            /\ model'.server = model.server
            /\ model'.database = model.database
            /\ model'.schema = model.schema ]_vars

\* a request of the given step and origins is issued by the step taken
Issued(step, origins) ==
    \E t \in BagToSet(tasks') :
        /\ t.step = step
        /\ t.origin \in origins
        /\ CopiesIn(t, tasks') > CopiesIn(t, tasks)

\* the response of a request of the given step is consumed by the step taken
Answered(step, origins) ==
    \E t \in BagToSet(tasks) :
        /\ t.step = step
        /\ t.origin \in origins
        /\ CopiesIn(t, tasks') < CopiesIn(t, tasks)

\* C16: the population steps of a page entry and of a server change run in
\* sequence: listDatabases is issued only with a connection selected, for that
\* connection; their schema query is issued only by the step that has received
\* the database list; and the chain of a page entry goes on after a non-empty
\* connection list: the step that receives the list issues listDatabases and
\* raises no error.
C16_PopulationRunsInSequence ==
    [][ /\ Issued("listDatabases", {"enter", "serverChanged"}) =>
              /\ server' /= Undefined
              /\ model'.server = server'
              /\ \A t \in BagToSet(tasks') :
                    (t.step = "listDatabases" /\ CopiesIn(t, tasks') > CopiesIn(t, tasks))
                        => t.connectionId = server'
        /\ Issued("schemaQuery", {"enter", "serverChanged"}) =>
              /\ Answered("listDatabases", {"enter", "serverChanged"})
              /\ databaseDropdown' /= <<>> => model'.database = databaseDropdown'[1].name
        /\ (lastAnswer' /= NoAnswer /\ lastAnswer' /= <<>>) =>
              /\ Issued("listDatabases", {"enter"})
              /\ rejections' = {} ]_vars

\* C18: no schema query and no table-name query is in flight while
\* model.database is unset or empty.
C18_QueriesNeedADatabase ==
    \A t \in BagToSet(tasks) :
        t.step \in {"schemaQuery", "tablesQuery"} =>
            (model.database /= Undefined /\ model.database /= "")

\* C19: a failing metadata query is an empty result: the step in which the
\* table-name query throws leaves the table-name cache empty, and the step in
\* which the schema query throws raises no rejection and leaves the schema
\* list empty.
C19_QueryFailureIsEmptyResult ==
    [][ \A t \in BagToSet(tasks) :
            /\ TablesQueryRejects(t) => tableNames' = <<>>
            /\ SchemaQueryRejects(t) => (rejections' = {} /\ schemaDropdown' = <<>>) ]_vars

\* C17: a change of the server selection clears the database list and the
\* schema list in the step that issues the new listDatabases request, and
\* whenever no request is in flight after a selection was changed the database
\* list shown is the database list of the selected server.
C17_NoStaleDatabaseList ==
    [][ /\ Issued("listDatabases", {"serverChanged"}) =>
              (databaseDropdown' = <<>> /\ schemaDropdown' = <<>>)
        /\ (lastChange'.kind /= "none" /\ BagCardinality(tasks') = 0) =>
              databaseDropdown' = CategoryValues(DatabasesOf(server')) ]_vars

\* C20: once every request started by changes of the database selection has
\* been answered, the table-name cache holds the tables of the selected
\* database.
C20_TableNamesOfSelectedDatabase ==
    (lastChange.kind = "database" /\ InFlight = 0) =>
        /\ model.database = lastChange.name
        /\ tableNames = DisplayValues(TableRows(model.database))

\* the first element of a list a collaborator returned, unset for an empty list
FirstOrUnset(names) == IF names /= <<>> THEN names[1] ELSE Undefined

\* C21: once the population started by a change of the server selection has
\* finished (and no other selection was changed since), model.database is the
\* first database listDatabases returned for the selected server and
\* model.schema the first schema returned for it; for an empty list the model
\* field is unset: it does not keep the value of the previous server.
C21_ModelFollowsServerChange ==
    (lastChange.kind = "server" /\ InFlight = 0) =>
        /\ model.database = FirstOrUnset(DatabasesOf(lastChange.name))
        /\ model.schema = FirstOrUnset(DisplayValues(SchemaRows(lastChange.name)))

\* the part of a path after its last '/'
AfterLastSlash(path) == SubSeq(path, LastIndexOf(path, "/") + 2, Len(path))

\* the base name of a file: the part after the last '/', without its
\* extension when it has one
BaseName(path) ==
    LET name == AfterLastSlash(path)
        dot == LastIndexOf(name, ".")
    IN IF dot = -1 THEN name ELSE SubSeq(name, 1, dot)

\* C22: the step in which the user picks a file stores the base name of the
\* file in the table-name box and in model.table, and the file's path in the
\* file text box and in model.filePath; cancelling the dialog changes none of
\* the four.
C22_BrowseDerivesBaseName ==
    [][ /\ \A fileUri \in BrowsedFiles :
              FilePicked(fileUri) =>
                  /\ tableNameTextBox' = BaseName(fileUri.path)
                  /\ model'.table = tableNameTextBox'
                  /\ fileTextBox' = fileUri.fsPath
                  /\ model'.filePath = fileTextBox'
        /\ FileDialogCancelled =>
              UNCHANGED <<tableNameTextBox, fileTextBox, model>> ]_vars

\* C23: this.server and model.server are the same connection in every state
\* of the configuration page, both unset before any selection, and every
\* request a step issues for a connection is issued for the connection both
\* hold after that step.
C23_PrivateServerIsModelServer ==
    /\ server = model.server
    /\ [][ /\ server' = model'.server
           /\ \A t \in BagToSet(tasks') :
                 (t.step /= "getActiveConnections" /\ CopiesIn(t, tasks') > CopiesIn(t, tasks))
                     => (t.connectionId = server' /\ t.connectionId = model'.server) ]_vars

\* the user has selected c1 after c2 was the default, and the listDatabases
\* request for c1 is in flight
C23_Witness ==
    /\ lastChange = [kind |-> "server", name |-> "c1"]
    /\ serverDropdown[1].name = "c2"
    /\ server = "c1"
    /\ model.server = "c1"
    /\ \E t \in BagToSet(tasks) : t.step = "listDatabases" /\ t.connectionId = "c1"

=============================================================================
